---------------------------- MODULE Spec2Model ----------------------------
(***************************************************************************)
(* cheesedex: the cycle-safe walker (internal/walk), the search pipeline   *)
(* (Server.ServeHTTP, Server.handleSearch), the archive encoders           *)
(* (archiveZIP, archiveTarGZ), the directory index (IndexContext.Populate) *)
(* and the file system they run against.                                   *)
(*                                                                         *)
(* Strings are sequences of one-character strings, so that ToLower,        *)
(* Contains, path.Clean and path.Join are computed, not assumed.  A path   *)
(* string is the record [abs, segs]: abs says whether it starts with "/",  *)
(* segs are its "/"-separated elements.  A cleaned path and its Go string  *)
(* correspond one to one; an uncleaned one (a symlink target as stored)    *)
(* keeps its "." and ".." elements.                                        *)
(***************************************************************************)
EXTENDS Integers, Sequences, FiniteSets, TLC

\* ------------------------------------------------------------------ strings

\* The one element of a singleton.  Only({e(x) : x \in {v}}) is LET x == v IN
\* e(x) with v evaluated once.
Only(S) == CHOOSE x \in S : TRUE

Last(s) == s[Len(s)]
Front(s) == SubSeq(s, 1, Len(s) - 1)

\* unicode.ToLower on the characters the model uses
LowerChar(c) ==
  CASE c = "A" -> "a"
    [] c = "B" -> "b"
    [] c = "D" -> "d"
    [] c = "E" -> "e"
    [] c = "H" -> "h"
    [] c = "L" -> "l"
    [] c = "M" -> "m"
    [] c = "R" -> "r"
    [] c = "T" -> "t"
    [] c = "X" -> "x"
    [] OTHER -> c

\* strings.ToLower
ToLower(s) == [i \in 1..Len(s) |-> LowerChar(s[i])]

\* strings.HasPrefix
HasPrefix(s, p) == Len(p) <= Len(s) /\ SubSeq(s, 1, Len(p)) = p

\* strings.Contains
Contains(s, sub) ==
  \E i \in 0..(Len(s) - Len(sub)) : SubSeq(s, i + 1, i + Len(sub)) = sub

\* byte order of the characters the model uses (ASCII)
CharOrd(c) ==
  CASE c = "(" -> 40 [] c = ")" -> 41 [] c = "." -> 46 [] c = "/" -> 47
    [] c = "1" -> 49 [] c = "2" -> 50
    [] c = "A" -> 65 [] c = "B" -> 66 [] c = "D" -> 68 [] c = "E" -> 69
    [] c = "H" -> 72 [] c = "L" -> 76 [] c = "M" -> 77 [] c = "R" -> 82
    [] c = "T" -> 84 [] c = "X" -> 88
    [] c = "^" -> 94
    [] c = "a" -> 97 [] c = "b" -> 98 [] c = "c" -> 99 [] c = "d" -> 100
    [] c = "e" -> 101 [] c = "f" -> 102 [] c = "h" -> 104 [] c = "i" -> 105
    [] c = "l" -> 108 [] c = "m" -> 109 [] c = "n" -> 110 [] c = "r" -> 114
    [] c = "s" -> 115 [] c = "t" -> 116 [] c = "u" -> 117 [] c = "v" -> 118
    [] c = "x" -> 120 [] c = "z" -> 122
    [] OTHER -> 0

\* the < of Go strings (bytewise lexicographic)
RECURSIVE StrLess(_, _)
StrLess(a, b) ==
  IF b = <<>> THEN FALSE
  ELSE IF a = <<>> THEN TRUE
  ELSE IF a[1] # b[1] THEN CharOrd(a[1]) < CharOrd(b[1])
  ELSE StrLess(Tail(a), Tail(b))

\* -------------------------------------------------------------------- paths

Dot == <<".">>
DotDot == <<".", ".">>

AbsPath(segs) == [abs |-> TRUE, segs |-> segs]
RelPath(segs) == [abs |-> FALSE, segs |-> segs]

\* path.Clean: drop ".", let ".." eat the element before it; a rooted path
\* drops a leading "..", a relative one keeps it.  The empty relative path is
\* the string ".".
RECURSIVE CleanSegs(_, _, _)
CleanSegs(segs, out, abs) ==
  IF segs = <<>> THEN out
  ELSE IF segs[1] = Dot THEN CleanSegs(Tail(segs), out, abs)
  ELSE IF segs[1] = DotDot THEN
         IF out # <<>> /\ Last(out) # DotDot
           THEN CleanSegs(Tail(segs), Front(out), abs)
         ELSE IF abs THEN CleanSegs(Tail(segs), out, abs)
         ELSE CleanSegs(Tail(segs), Append(out, DotDot), abs)
  ELSE CleanSegs(Tail(segs), Append(out, segs[1]), abs)

Clean(p) == [abs |-> p.abs, segs |-> CleanSegs(p.segs, <<>>, p.abs)]

\* path.IsAbs
IsAbs(p) == p.abs

\* path.Join(a, b) for a non-empty a: Clean(a + "/" + b); the "/" a rooted b
\* starts with collapses into the separator.
Join(a, b) == Clean([abs |-> a.abs, segs |-> a.segs \o b.segs])

\* path.Split(p): the part after the final slash
Base(p) == IF p.segs = <<>> THEN <<>> ELSE Last(p.segs)

\* filepath.Rel(base, targ) of two cleaned paths: err when one is rooted and
\* the other is not, or when base keeps a ".." that targ does not share.
RECURSIVE CommonLen(_, _)
CommonLen(a, b) ==
  IF a = <<>> \/ b = <<>> \/ a[1] # b[1] THEN 0
  ELSE 1 + CommonLen(Tail(a), Tail(b))

Rel(base, targ) ==
  Only({ IF base.abs # targ.abs
              \/ \E i \in (k + 1)..Len(base.segs) : base.segs[i] = DotDot
           THEN [err |-> "Rel", path |-> RelPath(<<>>)]
           ELSE [err |-> "",
                 path |-> RelPath([i \in 1..(Len(base.segs) - k) |-> DotDot]
                                    \o SubSeq(targ.segs, k + 1, Len(targ.segs)))] :
         k \in {CommonLen(base.segs, targ.segs)} })

\* the Go string of a path, as characters
RECURSIVE JoinSlash(_)
JoinSlash(segs) ==
  IF segs = <<>> THEN <<>>
  ELSE IF Len(segs) = 1 THEN segs[1]
  ELSE segs[1] \o <<"/">> \o JoinSlash(Tail(segs))

PathString(p) ==
  IF p.abs THEN <<"/">> \o JoinSlash(p.segs)
  ELSE IF p.segs = <<>> THEN Dot
  ELSE JoinSlash(p.segs)

\* -------------------------------------------------------------- file system

\* A file system is a sequence of nodes; a node's number is its index and
\* node 1 is "/".  A directory lists its entries sorted by name (os.ReadDir
\* returns them sorted by filename).  r and x are the read and search
\* permission the server's user has on a directory; eio marks a directory
\* whose enumeration fails with an I/O error.
NoPath == RelPath(<<>>)
E(name, ino) == [name |-> name, ino |-> ino]
Dir(par, ents) ==
  [kind |-> "dir", parent |-> par, ents |-> ents, target |-> NoPath,
   r |-> TRUE, x |-> TRUE, eio |-> FALSE]
File(par) ==
  [kind |-> "file", parent |-> par, ents |-> <<>>, target |-> NoPath,
   r |-> TRUE, x |-> TRUE, eio |-> FALSE]
Link(par, target) ==
  [kind |-> "symlink", parent |-> par, ents |-> <<>>, target |-> target,
   r |-> TRUE, x |-> TRUE, eio |-> FALSE]

\* a device node: neither regular nor a directory nor a link
Dev(par) ==
  [kind |-> "device", parent |-> par, ents |-> <<>>, target |-> NoPath,
   r |-> TRUE, x |-> TRUE, eio |-> FALSE]

\* the bytes of the regular file at node ino: zero, one or two bytes that
\* differ from file to file
Bytes(ino) == [i \in 1..(ino % 3) |-> 10 * ino + i]

RootIno == 1
\* the server's working directory, /srv in every file system below
CwdIno == 2

nSrv == <<"s", "r", "v">>
SrvAbs == AbsPath(<<nSrv>>)

\* /srv/{Ab, a/{b, l -> /srv}}: an absolute link back to an ancestor
FSCycleAbs ==
  << Dir(1, <<E(nSrv, 2)>>),
     Dir(1, <<E(<<"A", "b">>, 3), E(<<"a">>, 4)>>),
     File(2),
     Dir(2, <<E(<<"b">>, 5), E(<<"l">>, 6)>>),
     File(4),
     Link(4, SrvAbs) >>

\* /srv/a/{f, l -> .}: a relative link to the directory that holds it
FSCycleDot ==
  << Dir(1, <<E(nSrv, 2)>>),
     Dir(1, <<E(<<"a">>, 3)>>),
     Dir(2, <<E(<<"f">>, 4), E(<<"l">>, 5)>>),
     File(3),
     Link(3, RelPath(<<Dot>>)) >>

\* /srv/a/{f, l -> ..}: a relative link to the parent of its directory
FSCycleUp ==
  << Dir(1, <<E(nSrv, 2)>>),
     Dir(1, <<E(<<"a">>, 3)>>),
     Dir(2, <<E(<<"f">>, 4), E(<<"l">>, 5)>>),
     File(3),
     Link(3, RelPath(<<DotDot>>)) >>

\* /srv/{l1 -> /srv/t, l2 -> /srv/t, t/c}: both links enumerated first
FSTwoLinksFirst ==
  << Dir(1, <<E(nSrv, 2)>>),
     Dir(1, <<E(<<"l", "1">>, 3), E(<<"l", "2">>, 4), E(<<"t">>, 5)>>),
     Link(2, AbsPath(<<nSrv, <<"t">> >>)),
     Link(2, AbsPath(<<nSrv, <<"t">> >>)),
     Dir(2, <<E(<<"c">>, 6)>>),
     File(5) >>

\* /srv/{a/c, b -> /srv/a, c -> /srv/a}: the target enumerated first
FSTwoLinksLast ==
  << Dir(1, <<E(nSrv, 2)>>),
     Dir(1, <<E(<<"a">>, 3), E(<<"b">>, 5), E(<<"c">>, 6)>>),
     Dir(2, <<E(<<"c">>, 4)>>),
     File(3),
     Link(2, AbsPath(<<nSrv, <<"a">> >>)),
     Link(2, AbsPath(<<nSrv, <<"a">> >>)) >>

\* /srv/{a -> /srv/b, b/c, c -> /srv/b}: the target between the links
FSTwoLinksMid ==
  << Dir(1, <<E(nSrv, 2)>>),
     Dir(1, <<E(<<"a">>, 3), E(<<"b">>, 4), E(<<"c">>, 6)>>),
     Link(2, AbsPath(<<nSrv, <<"b">> >>)),
     Dir(2, <<E(<<"c">>, 5)>>),
     File(4),
     Link(2, AbsPath(<<nSrv, <<"b">> >>)) >>

\* /srv/{d/x (d mode 000), e/a (e mode r--), f}: permission errors
FSPerm ==
  << Dir(1, <<E(nSrv, 2)>>),
     Dir(1, <<E(<<"d">>, 3), E(<<"e">>, 5), E(<<"f">>, 7)>>),
     [Dir(2, <<E(<<"x">>, 4)>>) EXCEPT !.r = FALSE, !.x = FALSE],
     File(3),
     [Dir(2, <<E(<<"a">>, 6)>>) EXCEPT !.x = FALSE],
     File(5),
     File(2) >>

\* /srv/{d/x (d fails with EIO), z}: a hard error
FSEio ==
  << Dir(1, <<E(nSrv, 2)>>),
     Dir(1, <<E(<<"d">>, 3), E(<<"z">>, 5)>>),
     [Dir(2, <<E(<<"x">>, 4)>>) EXCEPT !.eio = TRUE],
     File(3),
     File(2) >>

\* /srv/{bl -> /n (missing), fl -> /srv/z, z}: a broken and a file link
FSLeafLinks ==
  << Dir(1, <<E(nSrv, 2)>>),
     Dir(1, <<E(<<"b", "l">>, 3), E(<<"f", "l">>, 4), E(<<"z">>, 5)>>),
     Link(2, AbsPath(<< <<"n">> >>)),
     Link(2, AbsPath(<<nSrv, <<"z">> >>)),
     File(2) >>

\* /srv/{a/f, d (device), e (empty), l -> a, m -> e}: every kind of entry
FSMixed ==
  << Dir(1, <<E(nSrv, 2)>>),
     Dir(1, <<E(<<"a">>, 3), E(<<"d">>, 5), E(<<"e">>, 6), E(<<"l">>, 7),
              E(<<"m">>, 8)>>),
     Dir(2, <<E(<<"f">>, 4)>>),
     File(3),
     Dev(2),
     File(2),
     Link(2, RelPath(<< <<"a">> >>)),
     Link(2, RelPath(<< <<"e">> >>)) >>

\* /srv/{a, u (mode 000), z}: a file that cannot be opened
FSUnreadable ==
  << Dir(1, <<E(nSrv, 2)>>),
     Dir(1, <<E(<<"a">>, 3), E(<<"u">>, 4), E(<<"z">>, 5)>>),
     File(2),
     [File(2) EXCEPT !.r = FALSE],
     File(2) >>

\* /srv/{README.md, README.txt, b, s -> t, t/}: two READMEs and a link to a
\* directory
FSIndex ==
  << Dir(1, <<E(nSrv, 2)>>),
     Dir(1, <<E(<<"R", "E", "A", "D", "M", "E", ".", "m", "d">>, 3),
              E(<<"R", "E", "A", "D", "M", "E", ".", "t", "x", "t">>, 4),
              E(<<"b">>, 5), E(<<"s">>, 6), E(<<"t">>, 7)>>),
     File(2), File(2), File(2),
     Link(2, RelPath(<< <<"t">> >>)),
     Dir(2, <<>>) >>

\* /srv/{l -> t, t/f}: a link with a relative target, listed before the
\* directory it points at
FSRelLink ==
  << Dir(1, <<E(nSrv, 2)>>),
     Dir(1, <<E(<<"l">>, 3), E(<<"t">>, 4)>>),
     Link(2, RelPath(<< <<"t">> >>)),
     Dir(2, <<E(<<"f">>, 5)>>),
     File(4) >>

\* /srv/{README.html, README.md, README.txt}: all three READMEs
FSReadmes ==
  << Dir(1, <<E(nSrv, 2)>>),
     Dir(1, <<E(<<"R", "E", "A", "D", "M", "E", ".", "h", "t", "m", "l">>, 3),
              E(<<"R", "E", "A", "D", "M", "E", ".", "m", "d">>, 4),
              E(<<"R", "E", "A", "D", "M", "E", ".", "t", "x", "t">>, 5)>>),
     File(2), File(2), File(2) >>

FileSystems ==
  { FSCycleAbs, FSCycleDot, FSCycleUp, FSTwoLinksFirst, FSTwoLinksLast,
    FSTwoLinksMid, FSPerm, FSEio, FSLeafLinks, FSMixed, FSUnreadable,
    FSIndex, FSReadmes, FSRelLink }

\* the entries of every directory are sorted by name, without duplicates
SortedDirs(f) ==
  \A i \in 1..Len(f) :
    \A j \in 1..(Len(f[i].ents) - 1) :
      StrLess(f[i].ents[j].name, f[i].ents[j + 1].name)

\* ----------------------------------------------------------- system calls

\* How many symbolic links one path resolution follows before the kernel
\* gives up with ELOOP.
MaxSymlinks == 2

Ok(ino) == [err |-> "", ino |-> ino]
Fail(e) == [err |-> e, ino |-> 0]

ChildOf(f, dir, name) ==
  LET hits == {j \in 1..Len(f[dir].ents) : f[dir].ents[j].name = name}
  IN IF hits = {} THEN 0 ELSE f[dir].ents[CHOOSE j \in hits : TRUE].ino

\* Path resolution from directory cur over the elements segs.  A symbolic
\* link met on the way is followed from the directory that holds it (or from
\* "/" when its target is rooted); the last element is followed only when
\* followLast.  Looking a name up needs search permission on the directory.
RECURSIVE Namei(_, _, _, _, _)
Namei(f, cur, segs, followLast, fuel) ==
  IF segs = <<>> THEN Ok(cur)
  ELSE IF f[cur].kind # "dir" THEN Fail("ENOTDIR")
  ELSE IF ~f[cur].x THEN Fail("EACCES")
  ELSE IF segs[1] = Dot THEN Namei(f, cur, Tail(segs), followLast, fuel)
  ELSE IF segs[1] = DotDot
    THEN Namei(f, f[cur].parent, Tail(segs), followLast, fuel)
  ELSE
    Only({ IF c = 0 THEN Fail("ENOENT")
           ELSE IF f[c].kind = "symlink" /\ (rest # <<>> \/ followLast) THEN
                  IF fuel = 0 THEN Fail("ELOOP")
                  ELSE Namei(f, IF f[c].target.abs THEN RootIno ELSE cur,
                             f[c].target.segs \o rest, followLast, fuel - 1)
           ELSE Namei(f, c, rest, followLast, fuel) :
           c \in {ChildOf(f, cur, segs[1])}, rest \in {Tail(segs)} })

StartIno(p) == IF p.abs THEN RootIno ELSE CwdIno

\* os.Stat: follows symbolic links
Stat(f, p) == Namei(f, StartIno(p), p.segs, TRUE, MaxSymlinks)

\* os.Lstat: does not follow the last element
Lstat(f, p) == Namei(f, StartIno(p), p.segs, FALSE, MaxSymlinks)

\* os.Readlink: the stored target of the link at p
Readlink(f, p) ==
  Only({ IF l.err # "" THEN [err |-> l.err, target |-> NoPath]
         ELSE IF f[l.ino].kind # "symlink"
           THEN [err |-> "EINVAL", target |-> NoPath]
         ELSE [err |-> "", target |-> f[l.ino].target] :
         l \in {Lstat(f, p)} })

\* fs.DirEntry as os.ReadDir yields it: the name and the type bits of the
\* entry itself (a link is a link, whatever it points at)
DirEntry(f, e) ==
  [name |-> e.name, isDir |-> f[e.ino].kind = "dir",
   isLink |-> f[e.ino].kind = "symlink", lazy |-> TRUE, ino |-> e.ino]

\* os.ReadDir: open the directory (following links) and list it
ReadDir(f, p) ==
  Only({ IF s.err # "" THEN [err |-> s.err, dirs |-> <<>>]
         ELSE IF f[s.ino].kind # "dir" THEN [err |-> "ENOTDIR", dirs |-> <<>>]
         ELSE IF ~f[s.ino].r THEN [err |-> "EACCES", dirs |-> <<>>]
         ELSE IF f[s.ino].eio THEN [err |-> "EIO", dirs |-> <<>>]
         ELSE [err |-> "",
               dirs |-> [j \in 1..Len(f[s.ino].ents) |->
                           DirEntry(f, f[s.ino].ents[j])]] :
         s \in {Stat(f, p)} })

\* errors.Is(err, os.ErrPermission)
IsPermission(err) == err = "EACCES"


\* ------------------------------------------------------------------ regexp

\* The queries of the model use the regexp syntax of literals, "(" ")" groups
\* and a leading "^".  regexp.Compile fails on unbalanced parentheses.
RECURSIVE ParenOk(_, _)
ParenOk(q, depth) ==
  IF q = <<>> THEN depth = 0
  ELSE IF q[1] = "(" THEN ParenOk(Tail(q), depth + 1)
  ELSE IF q[1] = ")" THEN depth > 0 /\ ParenOk(Tail(q), depth - 1)
  ELSE ParenOk(Tail(q), depth)

\* Faulty variant of Compile: every query compiles.
CompileAnything(q) == TRUE

Compile(q) == ParenOk(q, 0)

RECURSIVE StripParens(_)
StripParens(q) ==
  IF q = <<>> THEN <<>>
  ELSE IF q[1] \in {"(", ")"} THEN StripParens(Tail(q))
  ELSE <<q[1]>> \o StripParens(Tail(q))

\* Regexp.MatchString: unanchored unless the expression starts with "^"
MatchString(q, s) ==
  \E e \in {StripParens(q)} :
    IF e # <<>> /\ e[1] = "^" THEN HasPrefix(s, Tail(e)) ELSE Contains(s, e)

\* ---------------------------------------------------------------- requests

Request(method, dirq, segs, slash, q, regexp, dl) ==
  [method |-> method, dirq |-> dirq, segs |-> segs, slash |-> slash,
   q |-> q, regexp |-> regexp, dl |-> dl]

Search(segs, q, regexp) == Request("GET", FALSE, segs, TRUE, q, regexp, "")

Requests ==
  { Search(<<>>, <<"a">>, FALSE),
    Search(<<>>, <<"A", "B">>, FALSE),
    Search(<<>>, <<"l">>, FALSE),
    Search(<<>>, <<"d">>, FALSE),
    Search(<<>>, <<"(">>, FALSE),
    Search(<<>>, <<"(">>, TRUE),
    Search(<<>>, <<"a">>, TRUE),
    Search(<<>>, <<"^", "a">>, TRUE),
    Search(<< <<"a">> >>, <<"b">>, FALSE),
    Request("HEAD", FALSE, <<>>, TRUE, <<"z">>, FALSE, ""),
    Request("GET", FALSE, <<>>, TRUE, <<>>, FALSE, ""),
    Request("GET", FALSE, <<>>, TRUE, <<>>, FALSE, "zip"),
    Request("GET", FALSE, <<>>, TRUE, <<>>, FALSE, "targz"),
    Request("GET", FALSE, <<>>, TRUE, <<>>, FALSE, "rar"),
    Request("GET", FALSE, << <<"a">> >>, FALSE, <<>>, FALSE, ""),
    Request("HEAD", FALSE, <<>>, TRUE, <<>>, FALSE, ""),
    Request("GET", FALSE, << <<"A", "b">> >>, FALSE, <<>>, FALSE, ""),
    Request("POST", FALSE, <<>>, TRUE, <<"a">>, FALSE, ""),
    Request("GET", TRUE, <<>>, TRUE, <<"a">>, FALSE, "") }

NoRequest == Request("", FALSE, <<>>, FALSE, <<>>, FALSE, "")

\* the -d flag: an absolute directory, or the default "."
ServedDirs == { SrvAbs, RelPath(<<Dot>>) }

\* roots of a direct walk.WalkDir call; /n does not exist
WalkRoots == { SrvAbs, RelPath(<<>>), AbsPath(<< <<"n">> >>) }

\* ------------------------------------------------------------------- bounds

\* no walk of the model visits more entries than this
MaxVisits == 24
\* how many non-nil results a caller-supplied visit callback returns
MaxCbErr == 1


\* -------------------------------------------------------------------- state

VARIABLES
  fsys,      \* the file system the run works on
  entry,     \* "http": a request to Server; "walk": a direct walk.WalkDir call
  sdir,      \* Server.dir (for a direct call: the root of the walk)
  req,       \* the request
  cbKind,    \* the visit callback: "search" (handleSearch's fn), "nil", "any"
  cbBudget,  \* non-nil results an "any" callback may still return
  hpc,       \* where the request handler is
  resp,      \* what the handler has answered
  fscalls,   \* the file-system calls made so far, by call site
  wpc,       \* where the walking goroutine (or the direct call) is
  stack,     \* the walkDir activations, innermost last
  visited,   \* walk.WalkDir's visited set
  walkRet,   \* what walk.WalkDir returned
  visits,    \* every call of the visit callback, in order
  readdirs,  \* the node of every directory enumerated without error, in order
  chanBuf,   \* the buffer of the results channel
  offer,     \* the value of a send that is blocked on the results channel
  closed,    \* the results channel is closed
  nclose,    \* how many times the results channel was closed
  sent,      \* every Match the producer has sent or is sending, in order
  received,  \* every Match the consumer has received, in order
  arc,       \* the archive encoder of a ?dl= request
  index,     \* the IndexContext of a listing request
  pair       \* the request that runs concurrently with this one, if any

cfgvars == <<fsys, entry, sdir, req, cbKind, pair>>
walkvars == <<wpc, stack, visited, walkRet, visits, readdirs, cbBudget>>
chanvars == <<chanBuf, offer, closed, nclose, sent, received>>
dirvars == <<arc, index>>
vars ==
  <<fsys, entry, sdir, req, cbKind, cbBudget, hpc, resp, fscalls, wpc, stack,
    visited, walkRet, visits, readdirs, chanBuf, offer, closed, nclose, sent,
    received, arc, index, pair>>

\* path.Clean(r.URL.Path)
Relpath == AbsPath(CleanSegs(req.segs, <<>>, TRUE))
\* path.Join(s.dir, relpath)
BasePath == Join(sdir, Relpath)

\* ------------------------------------------------------------ walk.walkDir

NewFrame(name, d) ==
  [name |-> name, d |-> d, realname |-> name, stat |-> 0, pc |-> "visit",
   ret |-> "", rderr |-> "", dirs |-> <<>>, idx |-> 1]

Top == stack[Len(stack)]
SetTop(fr) == [stack EXCEPT ![Len(stack)] = fr]

\* the willwalk closure: whether to descend, and the realname it leaves
\* realname as lines 35-39 set it from the link read at name
RealName(name, link) == IF IsAbs(link) THEN link ELSE Join(name, link)

WillWalk(f, vis, name, d) ==
  IF d.isDir THEN [walk |-> name \notin vis, realname |-> name]
  ELSE IF d.isLink THEN
    Only({ IF rl.err # "" THEN [walk |-> FALSE, realname |-> name]
           ELSE
             Only({ IF rn \in vis THEN [walk |-> FALSE, realname |-> rn]
                    ELSE
                      Only({ IF st.err # ""
                               THEN [walk |-> FALSE, realname |-> rn]
                             ELSE [walk |-> f[st.ino].kind = "dir",
                                   realname |-> rn] :
                             st \in {Stat(f, rn)} }) :
                    rn \in {RealName(name, rl.target)} }) :
           rl \in {Readlink(f, name)} })
  ELSE [walk |-> FALSE, realname |-> name]

\* the getinfo closure: os.Stat(name) unless an earlier call left stat set
GetInfo(f, fr) == IF fr.stat # 0 THEN Ok(fr.stat) ELSE Stat(f, fr.name)

\* d.Info: the stat taken by WalkDir for the root, an lstat for an entry
DInfo(f, fr) == IF fr.d.lazy THEN Lstat(f, fr.name) ELSE Ok(fr.d.ino)

\* stat.IsDir() at line 61; a nil stat is a nil-pointer dereference
StatIsDir(f, st) == f[st].kind = "dir"

\* Faulty variant of Return: the children loop does not move on after a child.
RECURSIVE ReturnNoAdvance(_, _)
ReturnNoAdvance(stk, v) ==
  Only({ IF rest = <<>> THEN [stack |-> <<>>, done |-> TRUE, ret |-> v]
         ELSE IF v = "" THEN [stack |-> rest, done |-> FALSE, ret |-> ""]
         ELSE IF v = "SkipDir" THEN ReturnNoAdvance(rest, "")
         ELSE ReturnNoAdvance(rest, v) :
         rest \in {Front(stk)} })

\* Faulty variant of Return: the children loop goes on after a child's error.
ReturnIgnoreErr(stk, v) ==
  Only({ IF rest = <<>> THEN [stack |-> <<>>, done |-> TRUE, ret |-> v]
         ELSE [stack |-> [rest EXCEPT ![Len(rest)].idx = @ + 1],
               done |-> FALSE, ret |-> ""] :
         rest \in {Front(stk)} })

\* The walkDir activation returns v to its caller: WalkDir itself for the
\* root, else the children loop of its parent, which goes on to the next
\* child on nil, breaks and returns nil on SkipDir and returns any other
\* error.
RECURSIVE Return(_, _)
Return(stk, v) ==
  Only({ IF rest = <<>> THEN [stack |-> <<>>, done |-> TRUE, ret |-> v]
         ELSE IF v = "" THEN
           [stack |-> [rest EXCEPT ![Len(rest)].idx = @ + 1], done |-> FALSE,
            ret |-> ""]
         ELSE IF v = "SkipDir" THEN Return(rest, "")
         ELSE Return(rest, v) :
         rest \in {Front(stk)} })

\* --------------------------------------------------- the visit callbacks

NoMatch == [path |-> NoPath, ino |-> 0, target |-> 0]
Outcome(send, match, ret, stat, panic, stated) ==
  [send |-> send, match |-> match, ret |-> ret, stat |-> stat, panic |-> panic,
   stated |-> stated]

\* FileInfo.PopulateFrom followed by finfo.path = name
MakeMatch(f, fpath, name, ino) ==
  [path |-> name, ino |-> ino,
   target |-> IF f[ino].kind = "symlink" THEN Stat(f, fpath).ino ELSE 0]

\* whether fn takes the entry called name (relative to the search root) at
\* fpath for a match
Matched(q, isregexp, fpath, name) ==
  IF isregexp THEN MatchString(q, PathString(fpath))
  ELSE Contains(ToLower(Base(name)), ToLower(q))

\* handleSearch's fn, up to its return or to its send on results.  first
\* tells the call with getinfo (line 60) from the one with d.Info (line 70)
\* and the one without accessor (line 15).
SearchFn(f, base, q, isregexp, fr, first, err) ==
  IF err # "" /\ ~IsPermission(err)
    THEN Outcome(FALSE, NoMatch, err, fr.stat, FALSE, FALSE)
  ELSE
    Only({ IF rel.err # "" THEN Outcome(FALSE, NoMatch, "", fr.stat, TRUE, FALSE)
           ELSE IF rel.path.segs = <<>>
             THEN Outcome(FALSE, NoMatch, "", fr.stat, FALSE, FALSE)
           ELSE IF ~Matched(q, isregexp, fr.name, rel.path)
             THEN Outcome(FALSE, NoMatch, "", fr.stat, FALSE, FALSE)
           ELSE
             Only({ IF info.err # ""
                      THEN Outcome(FALSE, NoMatch, info.err,
                                   IF first THEN info.ino ELSE fr.stat,
                                   FALSE, TRUE)
                    ELSE Outcome(TRUE,
                                 MakeMatch(f, fr.name, rel.path, info.ino), "",
                                 IF first THEN info.ino ELSE fr.stat,
                                 FALSE, TRUE) :
                    info \in {IF first THEN GetInfo(f, fr) ELSE DInfo(f, fr)} }) :
           rel \in {Rel(base, fr.name)} })

\* what a caller-supplied callback leaves in stat when it calls getinfo
\* (called) and when it does not
StatAfter(f, fr, first, called) ==
  IF first /\ called THEN GetInfo(f, fr).ino ELSE fr.stat

\* the outcomes of one call of the visit callback
FnOutcomes(fr, first, err) ==
  IF cbKind = "search"
    THEN {SearchFn(fsys, BasePath, req.q, req.regexp, fr, first, err)}
  ELSE
    { Outcome(FALSE, NoMatch, r, StatAfter(fsys, fr, first, c), FALSE,
              first /\ c) :
        r \in (IF cbKind = "any" /\ cbBudget > 0
                 THEN {"", "SkipDir", "EUSER"} ELSE {""}),
        c \in BOOLEAN }

LstatIno(p) == Lstat(fsys, p).ino
\* one call of fn: the path and error it was given and the value it returned
VisitRec(p, err, ret) ==
  [path |-> p, ino |-> LstatIno(p), err |-> err, ret |-> ret]


\* ------------------------------------------------------ the results channel

\* make(chan FileInfo): no buffer
ChanCap == 0

\* Faulty variant of SendBlocks: a channel that always has room.
SendBlocksNever(buf) == FALSE

\* a send blocks until a receiver takes the value, unless the buffer has room
SendBlocks(buf) == Len(buf) >= ChanCap

\* Faulty variant of EndCall: the callback does not wait for its send to complete.
EndCallNoWait(o, blockedPc, contPc) ==
  /\ sent' = IF o.send THEN Append(sent, o.match) ELSE sent
  /\ offer' = IF o.send THEN <<o.match>> ELSE offer
  /\ chanBuf' = chanBuf
  /\ stack' = SetTop([Top EXCEPT !.stat = o.stat, !.ret = o.ret, !.pc = contPc])

\* The callback's call ends: the Match it sends (if any) goes to the channel
\* and the activation waits at blockedPc until the send completes, or goes on
\* at contPc with the callback's result in ret.
EndCall(o, blockedPc, contPc) ==
  IF o.send THEN
    /\ sent' = Append(sent, o.match)
    /\ IF SendBlocks(chanBuf)
         THEN /\ offer' = <<o.match>>
              /\ chanBuf' = chanBuf
              /\ stack' = SetTop([Top EXCEPT !.stat = o.stat, !.pc = blockedPc])
         ELSE /\ offer' = offer
              /\ chanBuf' = Append(chanBuf, o.match)
              /\ stack' = SetTop([Top EXCEPT !.stat = o.stat, !.ret = "",
                                             !.pc = contPc])
  ELSE
    /\ UNCHANGED <<sent, offer, chanBuf>>
    /\ stack' = SetTop([Top EXCEPT !.stat = o.stat, !.ret = o.ret,
                                   !.pc = contPc])

\* the blocked send completes and the callback returns nil
Unblocked(stk) ==
  [stk EXCEPT ![Len(stk)] =
     [@ EXCEPT !.ret = "",
               !.pc = IF @ = "send1" THEN "visited" ELSE "reported"]]

\* ------------------------------------------------------------- walk.WalkDir

Spend(o) == IF cbKind = "any" /\ o.ret # "" THEN cbBudget - 1 ELSE cbBudget

\* Faulty variant of WalkDirResult: WalkDir drops what fn and walkDir return.
WalkDirResultNil(err) == ""

\* WalkDir, lines 15-19: the result of fn, or of walkDir, is returned as it is
WalkDirResult(err) == err

\* WalkDir, lines 11-20: stat the root; report a failure to fn, else start
\* walkDir on the root
WalkDirCall ==
  /\ wpc = "call"
  /\ visited' = {}
  /\ fscalls' = fscalls \cup {"WalkDir.Stat"}
  /\ \E st \in {Stat(fsys, BasePath)} :
        IF st.err # "" THEN
          \E o \in FnOutcomes(NewFrame(BasePath, DirEntry(fsys, E(<<>>, 1))),
                              FALSE, st.err) :
            /\ visits' = Append(visits, VisitRec(BasePath, st.err, o.ret))
            /\ cbBudget' = Spend(o)
            /\ wpc' = IF o.panic THEN "panic" ELSE "returned"
            /\ walkRet' = WalkDirResult(o.ret)
            /\ UNCHANGED stack
        ELSE
          /\ stack' = << NewFrame(BasePath,
                           [name |-> Base(BasePath),
                            isDir |-> fsys[st.ino].kind = "dir",
                            isLink |-> FALSE, lazy |-> FALSE, ino |-> st.ino]) >>
          /\ wpc' = "walk"
          /\ UNCHANGED <<visits, walkRet, cbBudget>>
  /\ UNCHANGED <<cfgvars, dirvars, hpc, resp, readdirs, chanvars>>

\* the activation on top returns v
DoReturn(v) ==
  \E r \in {Return(stack, v)} :
     /\ stack' = r.stack
     /\ wpc' = IF r.done THEN "returned" ELSE wpc
     /\ walkRet' = IF r.done THEN WalkDirResult(r.ret) ELSE walkRet

\* walkDir, line 60: fn(name, getinfo, nil)
VisitCall ==
  /\ wpc = "walk" /\ stack # <<>> /\ Top.pc = "visit"
  /\ Len(visits) < MaxVisits
  /\ \E o \in FnOutcomes(Top, TRUE, "") :
       /\ visits' = Append(visits, VisitRec(Top.name, "", o.ret))
       /\ cbBudget' = Spend(o)
       /\ fscalls' = IF o.stated THEN fscalls \cup {"getinfo.Stat"} ELSE fscalls
       /\ IF o.panic
            THEN wpc' = "panic" /\ UNCHANGED <<stack, sent, offer, chanBuf>>
            ELSE wpc' = wpc /\ EndCall(o, "send1", "visited")
  /\ UNCHANGED <<cfgvars, dirvars, hpc, resp, visited, walkRet, readdirs, closed,
                 nclose, received>>

\* walkDir, lines 60-74, after fn has returned: leave on an error or when
\* willwalk says no, else mark realname visited and enumerate name
Descend ==
  /\ wpc = "walk" /\ stack # <<>> /\ Top.pc = "visited"
  /\ IF Top.ret # "" THEN
       /\ IF Top.ret = "SkipDir" /\ Top.stat = 0
            THEN wpc' = "panic" /\ UNCHANGED <<stack, walkRet>>
            ELSE DoReturn(IF Top.ret = "SkipDir" /\ StatIsDir(fsys, Top.stat)
                            THEN "" ELSE Top.ret)
       /\ UNCHANGED <<visited, readdirs, fscalls>>
     ELSE
       \E ww \in {WillWalk(fsys, visited, Top.name, Top.d)},
          rd \in {ReadDir(fsys, Top.name)} :
          IF ~ww.walk THEN
            /\ DoReturn("")
            /\ fscalls' = IF Top.d.isLink /\ ~Top.d.isDir
                            THEN fscalls \cup {"willwalk.Readlink"} ELSE fscalls
            /\ UNCHANGED <<visited, readdirs>>
          ELSE
            /\ visited' = visited \cup {ww.realname}
            /\ fscalls' = fscalls \cup {"walkDir.ReadDir"}
                            \cup (IF Top.d.isLink /\ ~Top.d.isDir
                                    THEN {"willwalk.Readlink", "willwalk.Stat"}
                                    ELSE {})
            /\ readdirs' = IF rd.err = ""
                             THEN Append(readdirs, Stat(fsys, Top.name).ino)
                             ELSE readdirs
            /\ stack' = SetTop([Top EXCEPT !.realname = ww.realname,
                                  !.rderr = rd.err, !.dirs = rd.dirs, !.idx = 1,
                                  !.pc = IF rd.err # "" THEN "report" ELSE "loop"])
            /\ UNCHANGED <<wpc, walkRet>>
  /\ UNCHANGED <<cfgvars, dirvars, cbBudget, hpc, resp, visits, chanvars>>

\* walkDir, line 70: fn(name, d.Info, err) after a failed enumeration
Report ==
  /\ wpc = "walk" /\ stack # <<>> /\ Top.pc = "report"
  /\ Len(visits) < MaxVisits
  /\ \E o \in FnOutcomes(Top, FALSE, Top.rderr) :
       /\ visits' = Append(visits, VisitRec(Top.name, Top.rderr, o.ret))
       /\ cbBudget' = Spend(o)
       /\ fscalls' = IF o.stated /\ Top.d.lazy
                       THEN fscalls \cup {"d.Info.Lstat"} ELSE fscalls
       /\ IF o.panic
            THEN wpc' = "panic" /\ UNCHANGED <<stack, sent, offer, chanBuf>>
            ELSE wpc' = wpc /\ EndCall(o, "send2", "reported")
  /\ UNCHANGED <<cfgvars, dirvars, hpc, resp, visited, walkRet, readdirs, closed,
                 nclose, received>>

\* walkDir, lines 71-73: a non-nil result of that call is returned
Reported ==
  /\ wpc = "walk" /\ stack # <<>> /\ Top.pc = "reported"
  /\ IF Top.ret # "" THEN DoReturn(Top.ret)
     ELSE /\ stack' = SetTop([Top EXCEPT !.pc = "loop"])
          /\ UNCHANGED <<wpc, walkRet>>
  /\ UNCHANGED <<cfgvars, dirvars, cbBudget, hpc, resp, fscalls, visited, visits,
                 readdirs, chanvars>>

\* walkDir, lines 76-85: walk the next child, or return nil after the last
Loop ==
  /\ wpc = "walk" /\ stack # <<>> /\ Top.pc = "loop"
  /\ IF Top.idx > Len(Top.dirs) THEN DoReturn("")
     ELSE \E d1 \in {Top.dirs[Top.idx]} :
             /\ stack' = Append(stack,
                           NewFrame(Join(Top.name, RelPath(<<d1.name>>)), d1))
             /\ UNCHANGED <<wpc, walkRet>>
  /\ UNCHANGED <<cfgvars, dirvars, cbBudget, hpc, resp, fscalls, visited, visits,
                 readdirs, chanvars>>


\* ------------------------------------------------ Server.handleSearch: go func

\* Faulty variant of WalkReturned: results is closed while the walk is still running.
WalkReturnedOrRunning == wpc \in {"walk", "returned"}

\* line 160 before line 164: close follows the return of WalkDir
WalkReturned == wpc = "returned"

\* lines 159-165: after WalkDir has returned, log its error and close results
ProducerClose ==
  /\ entry \in {"http", "pair"} /\ WalkReturned
  /\ closed' = TRUE
  /\ nclose' = nclose + 1
  /\ wpc' = "closed"
  /\ UNCHANGED <<cfgvars, dirvars, cbBudget, hpc, resp, fscalls, stack, visited, walkRet,
                 visits, readdirs, chanBuf, offer, sent, received>>

\* ------------------------------------------------------------ the handlers

\* os.Open(name): the path must resolve to something the server may read
Open(f, p) ==
  Only({ IF s.err # "" THEN s
         ELSE IF ~f[s.ino].r THEN Fail("EACCES")
         ELSE s :
         s \in {Stat(f, p)} })

\* --------------------------------------------------- the archive encoders

\* d.Type(): the type bits of a directory entry, none for a regular file
TypeBits(f, ino) ==
  CASE f[ino].kind = "dir" -> {"d"}
    [] f[ino].kind = "symlink" -> {"L"}
    [] f[ino].kind = "device" -> {"D"}
    [] OTHER -> {}

\* fs.FileMode.IsRegular
IsRegular(t) == t = {}

\* Faulty variant of ZipSkips: only directories are skipped.
ZipSkipsDirs(t) == "d" \in t

\* archiveZIP, line 259: d.Type() != 0
ZipSkips(t) == t # {}

\* archiveTarGZ, line 298: !d.Type().IsRegular()
TarSkips(t) == ~IsRegular(t)

Skips(fmt, t) == IF fmt = "zip" THEN ZipSkips(t) ELSE TarSkips(t)

\* One unit of the archive stream: a file header "H" (tar: with the size), a
\* payload byte "B", a zip data descriptor "DD" (the size, after the payload),
\* the tar end marker "TAREND", the gzip footer "GZEND", a zip central
\* directory entry "CD" and the zip end record "EOCD" (the entry count).
Tok(t, name, n) == [t |-> t, name |-> name, n |-> n]

Payload(bytes) == [i \in 1..Len(bytes) |-> Tok("B", <<>>, bytes[i])]

\* what f.Stat() and io.Copy see of the file opened at node ino
FileBytes(f, ino) == IF f[ino].kind = "file" THEN Bytes(ino) ELSE <<>>

\* Faulty variant of HeaderTok: the name FileInfoHeader sets (the base name) is kept.
HeaderTokBaseName(fmt, name, size) ==
  Tok("H", Base(name), IF fmt = "zip" THEN 0 ELSE size)

\* header.Name = fpath followed by the header: tar.Writer.WriteHeader writes
\* name and size, zip.Writer.CreateHeader a streamed header whose size
\* follows the payload
HeaderTok(fmt, name, size) ==
  Tok("H", PathString(name), IF fmt = "zip" THEN 0 ELSE size)

\* the whole record of one file
FileRecord(fmt, name, bytes) ==
  <<HeaderTok(fmt, name, Len(bytes))>> \o Payload(bytes)
    \o (IF fmt = "zip" THEN <<Tok("DD", <<>>, Len(bytes))>> ELSE <<>>)

\* zip.Writer.Close: one central directory entry per header written, then
\* the end record
RECURSIVE CentralDir(_)
CentralDir(out) ==
  IF out = <<>> THEN <<>>
  ELSE IF out[1].t = "H"
    THEN <<Tok("CD", out[1].name, 0)>> \o CentralDir(Tail(out))
  ELSE CentralDir(Tail(out))

ZipTrailer(out) ==
  Only({ cd \o <<Tok("EOCD", <<>>, Len(cd))>> : cd \in {CentralDir(out)} })

\* one result of the encoders' visit function: what it wrote and returned
FnResult(toks, err) == [toks |-> toks, err |-> err]

\* The function archiveZIP and archiveTarGZ pass to fs.WalkDir, called with a
\* nil error for the entry d at name: skip what is not a regular file, else
\* open, stat, write the header and copy the payload.  A write can fail at
\* any time (the client is gone); reading a directory as a file fails.
ArcFn(f, base, fmt, name, d) ==
  IF Skips(fmt, TypeBits(f, d.ino)) THEN {FnResult(<<>>, "")}
  ELSE
    UNION { IF op.err # "" THEN {FnResult(<<>>, op.err)}
            ELSE
              UNION { { FnResult(<<>>, "EPIPE"),
                        FnResult(<<HeaderTok(fmt, name, Len(bytes))>>,
                                 "EPIPE"),
                        IF f[op.ino].kind = "dir"
                          THEN FnResult(<<HeaderTok(fmt, name, 0)>>, "EISDIR")
                          ELSE FnResult(FileRecord(fmt, name, bytes), "") } :
                      bytes \in {FileBytes(f, op.ino)} } :
            op \in {Open(f, Join(base, name))} }

\* the encoder before handleDir starts one
ArcOff ==
  [fmt |-> "", pc |-> "off", stack |-> <<>>, out |-> <<>>, tarOpen |-> FALSE,
   gzOpen |-> FALSE, zipOpen |-> FALSE, err |-> "", errs |-> <<>>,
   visits |-> <<>>, flushed |-> FALSE, errpage |-> FALSE]

\* an activation of fs.WalkDir's walkDir for the entry d at name
ArcFrame(name, d) ==
  [name |-> name, d |-> d, pc |-> "visit", dirs |-> <<>>, idx |-> 1]

\* lines 253-255 and 291-294: the writers are made and fs.WalkDir starts at
\* "."
ArcNew(fmt, rootino) ==
  [ArcOff EXCEPT !.fmt = fmt, !.pc = "walk",
     !.stack = << ArcFrame(RelPath(<<>>),
                    [name |-> Dot, isDir |-> TRUE, isLink |-> FALSE,
                     lazy |-> FALSE, ino |-> rootino]) >>,
     !.tarOpen = (fmt = "targz"), !.gzOpen = (fmt = "targz"),
     !.zipOpen = (fmt = "zip")]

ATop == arc.stack[Len(arc.stack)]

\* Faulty variant of AbortOn: the walk goes on after an error.
AbortNever(err) == FALSE

\* fs.WalkDir returns the first error its function returns, and the encoders
\* return it at once (lines 283-285, 322-324)
AbortOn(err) == err # ""

\* the encoder gives up with err
ArcAbort(a, err) == [a EXCEPT !.pc = "ret", !.err = err, !.stack = <<>>]

\* walkDir returns nil: its caller's loop moves to the next entry, and after
\* the root fs.WalkDir returns nil
ArcPop(a) ==
  IF Len(a.stack) = 1 THEN [a EXCEPT !.stack = <<>>, !.pc = "close"]
  ELSE [a EXCEPT !.stack =
          [i \in 1..(Len(a.stack) - 1) |->
             IF i = Len(a.stack) - 1
               THEN [a.stack[i] EXCEPT !.idx = @ + 1] ELSE a.stack[i]]]

ArcVisitRec(name, ino, err) == [name |-> name, ino |-> ino, err |-> err]

\* fs.WalkDir's walkDir: call the function for the entry; for a directory
\* read it, and report a failure of that to the function, which returns it
ArcVisit ==
  /\ hpc = "archive" /\ arc.pc = "walk" /\ arc.stack # <<>>
  /\ ATop.pc = "visit"
  /\ \E top \in {ATop} :
     \E o \in ArcFn(fsys, BasePath, arc.fmt, top.name, top.d) :
     \E fl \in (IF o.toks # <<>> /\ o.err = "" THEN {arc.flushed, TRUE}
                ELSE {arc.flushed}) :
     \E a1 \in {[arc EXCEPT
                   !.out = @ \o o.toks,
                   !.visits = Append(@, ArcVisitRec(top.name, top.d.ino, "")),
                   !.errs = IF o.err # "" THEN Append(@, o.err) ELSE @,
                   !.flushed = fl]} :
       IF o.err # "" THEN
         arc' = IF AbortOn(o.err) THEN ArcAbort(a1, o.err) ELSE ArcPop(a1)
       ELSE IF ~top.d.isDir THEN arc' = ArcPop(a1)
       ELSE
         \E rd \in {ReadDir(fsys, Join(BasePath, top.name))} :
           IF rd.err # "" THEN
             \E a2 \in {[a1 EXCEPT
                           !.visits = Append(@, ArcVisitRec(top.name,
                                                            top.d.ino, rd.err)),
                           !.errs = Append(@, rd.err)]} :
               arc' = IF AbortOn(rd.err) THEN ArcAbort(a2, rd.err)
                      ELSE ArcPop(a2)
           ELSE
             arc' = [a1 EXCEPT !.stack[Len(a1.stack)] =
                       [top EXCEPT !.pc = "loop", !.dirs = rd.dirs, !.idx = 1]]
  /\ UNCHANGED <<cfgvars, index, hpc, resp, fscalls, walkvars, chanvars>>

\* fs.WalkDir's walkDir: the loop over the entries of a directory
ArcLoop ==
  /\ hpc = "archive" /\ arc.pc = "walk" /\ arc.stack # <<>>
  /\ ATop.pc = "loop"
  /\ \E top \in {ATop} :
       IF top.idx > Len(top.dirs) THEN arc' = ArcPop(arc)
       ELSE
         \E d1 \in {top.dirs[top.idx]} :
           arc' = [arc EXCEPT !.stack =
                     Append(@, ArcFrame(Join(top.name, RelPath(<<d1.name>>)),
                                        d1))]
  /\ UNCHANGED <<cfgvars, index, hpc, resp, fscalls, walkvars, chanvars>>

\* archiveTarGZ, lines 325-328: w.Close() writes the tar end marker
ArcCloseTar ==
  /\ hpc = "archive" /\ arc.fmt = "targz" /\ arc.pc = "close"
  /\ \/ arc' = [arc EXCEPT !.out = Append(@, Tok("TAREND", <<>>, 0)),
                           !.tarOpen = FALSE, !.pc = "closegz"]
     \/ arc' = [ArcAbort(arc, "EPIPE") EXCEPT !.errs = Append(@, "EPIPE")]
  /\ UNCHANGED <<cfgvars, index, hpc, resp, fscalls, walkvars, chanvars>>

\* Faulty variant of TarClosed: zw.Close() does not wait for w.Close().
TarClosedOrOpen(a) == a.pc \in {"close", "closegz"}

\* line 325 before line 329
TarClosed(a) == a.pc = "closegz"

\* archiveTarGZ, line 329: zw.Close() flushes and writes the gzip footer
ArcCloseGz ==
  /\ hpc = "archive" /\ arc.fmt = "targz" /\ TarClosed(arc)
  /\ \/ arc' = [arc EXCEPT !.out = Append(@, Tok("GZEND", <<>>, 0)),
                           !.gzOpen = FALSE, !.flushed = TRUE, !.pc = "ret"]
     \/ arc' = [ArcAbort(arc, "EPIPE") EXCEPT !.errs = Append(@, "EPIPE")]
  /\ UNCHANGED <<cfgvars, index, hpc, resp, fscalls, walkvars, chanvars>>

\* archiveZIP, line 286: w.Close() writes the central directory
ArcCloseZip ==
  /\ hpc = "archive" /\ arc.fmt = "zip" /\ arc.pc = "close"
  /\ \/ arc' = [arc EXCEPT !.out = @ \o ZipTrailer(arc.out),
                           !.zipOpen = FALSE, !.flushed = TRUE, !.pc = "ret"]
     \/ arc' = [ArcAbort(arc, "EPIPE") EXCEPT !.errs = Append(@, "EPIPE")]
  /\ UNCHANGED <<cfgvars, index, hpc, resp, fscalls, walkvars, chanvars>>

\* handleDir, lines 223-226: the encoder has returned; its error goes to
\* http.Error, which sets the status if no byte has gone out yet and writes
\* the error text to the response in any case
ArcReturn ==
  /\ hpc = "archive" /\ arc.pc = "ret"
  /\ arc' = [arc EXCEPT !.pc = "done", !.errpage = (arc.err # "")]
  /\ resp' = IF arc.err # "" /\ ~arc.flushed THEN "500" ELSE "200 archive"
  /\ hpc' = "done"
  /\ UNCHANGED <<cfgvars, index, fscalls, walkvars, chanvars>>

\* ------------------------------------------------------ the directory index

\* the names IndexContext.Populate looks for, as they are usually written
nReadmeMd == <<"R", "E", "A", "D", "M", "E", ".", "m", "d">>
nReadmeTxt == <<"R", "E", "A", "D", "M", "E", ".", "t", "x", "t">>
nReadmeHtml == <<"R", "E", "A", "D", "M", "E", ".", "h", "t", "m", "l">>

\* FileInfo.PopulateFrom, lines 373-383: the entry's own (lstat) info and,
\* for a link, the mode of what os.Stat finds behind it; a failed stat leaves
\* TargetMode zero
PopulateFrom(f, fpath, e) ==
  [name |-> e.name, ino |-> e.ino, kind |-> f[e.ino].kind,
   target |-> IF f[e.ino].kind # "symlink" THEN ""
              ELSE Only({ IF st.err # "" THEN "" ELSE f[st.ino].kind :
                          st \in {Stat(f, fpath)} })]

\* FileInfo.mode, lines 366-371, as far as IsDir goes
ModeIsDir(fi) ==
  (IF fi.kind = "symlink" THEN fi.target ELSE fi.kind) = "dir"

\* Faulty variant of Less: by name only.
LessByName(a, b) == StrLess(a.name, b.name)

\* the less function of sort.Slice, lines 410-419
Less(a, b) ==
  IF ModeIsDir(a) = ModeIsDir(b) THEN StrLess(a.name, b.name)
  ELSE ModeIsDir(a)

\* sort.Slice: the files in the order of Less
RECURSIVE Insert(_, _)
Insert(x, s) ==
  IF s = <<>> THEN <<x>>
  ELSE IF Less(x, s[1]) THEN <<x>> \o s
  ELSE Only({ <<s[1]>> \o rest : rest \in {Insert(x, Tail(s))} })

RECURSIVE SortFiles(_)
SortFiles(files) ==
  IF files = <<>> THEN <<>>
  ELSE Only({ Insert(files[1], rest) : rest \in {SortFiles(Tail(files))} })

\* os.ReadFile: open (following links) and read a file
ReadFile(f, p) ==
  Only({ IF op.err # "" THEN op
         ELSE IF f[op.ino].kind = "dir" THEN Fail("EISDIR")
         ELSE op :
         op \in {Open(f, p)} })

ReadmeNames ==
  { ToLower(nReadmeTxt), ToLower(nReadmeHtml), ToLower(nReadmeMd) }

\* Faulty variant of ReadmeHow: every README is escaped and wrapped in <pre>.
ReadmeHowPre(lname) == "pre"

\* lines 433-462: how the README with the lower-cased name lname becomes
\* HTML: escaped inside <pre>, verbatim, or converted from markdown
ReadmeHow(lname) ==
  IF lname = ToLower(nReadmeTxt) THEN "pre"
  ELSE IF lname = ToLower(nReadmeHtml) THEN "verbatim"
  ELSE "markdown"

NoReadme == [how |-> "", src |-> 0]

\* Faulty variant of SelectReadme: the loop does not stop at the first README.
RECURSIVE SelectReadmeLast(_, _, _)
SelectReadmeLast(f, dir, files) ==
  IF files = <<>> THEN [err |-> "", readme |-> NoReadme]
  ELSE IF ToLower(files[1].name) \notin ReadmeNames
    THEN SelectReadmeLast(f, dir, Tail(files))
  ELSE
    Only({ IF p.err # "" THEN [err |-> p.err, readme |-> NoReadme]
           ELSE Only({ IF later.err # "" \/ later.readme # NoReadme THEN later
                       ELSE [err |-> "",
                             readme |-> [how |-> ReadmeHow(ToLower(files[1].name)),
                                         src |-> p.ino]] :
                       later \in {SelectReadmeLast(f, dir, Tail(files))} }) :
           p \in {ReadFile(f, Join(dir, RelPath(<<files[1].name>>)))} })

\* IndexContext.Populate, lines 431-467: the loop over the sorted files; the
\* first one named like a README is read and ends the loop
RECURSIVE SelectReadme(_, _, _)
SelectReadme(f, dir, files) ==
  IF files = <<>> THEN [err |-> "", readme |-> NoReadme]
  ELSE IF ToLower(files[1].name) \notin ReadmeNames
    THEN SelectReadme(f, dir, Tail(files))
  ELSE
    Only({ IF p.err # "" THEN [err |-> p.err, readme |-> NoReadme]
           ELSE [err |-> "",
                 readme |-> [how |-> ReadmeHow(ToLower(files[1].name)),
                             src |-> p.ino]] :
           p \in {ReadFile(f, Join(dir, RelPath(<<files[1].name>>)))} })

IndexOff == [done |-> FALSE, files |-> <<>>, readme |-> NoReadme, err |-> ""]

\* IndexContext.Populate, lines 402-469, on the entries file.Readdir gave
Populate(f, dir, ents) ==
  Only({ Only({ Only({ [done |-> TRUE, files |-> sorted,
                        readme |-> sel.readme, err |-> sel.err] :
                       sel \in {SelectReadme(f, dir, sorted)} }) :
                sorted \in {SortFiles(files)} }) :
         files \in {[i \in 1..Len(ents) |->
                       PopulateFrom(f, Join(dir, RelPath(<<ents[i].name>>)),
                                    ents[i])]} })

Reverse(s) == [i \in 1..Len(s) |-> s[Len(s) + 1 - i]]

\* file.Readdir(0): the entries in directory order, which is any order
ReaddirOrders(f, ino) == { f[ino].ents, Reverse(f[ino].ents) }

nIndexHtml == <<"i", "n", "d", "e", "x", ".", "h", "t", "m", "l">>

\* Server.ServeHTTP, lines 65-99
ServeHTTP ==
  /\ hpc = "recv"
  /\ IF req.method \notin {"GET", "HEAD"} THEN
       /\ resp' = "405" /\ hpc' = "done" /\ UNCHANGED fscalls
     ELSE IF req.dirq THEN
       /\ resp' = "307" /\ hpc' = "done" /\ UNCHANGED fscalls
     ELSE
       \E file \in {Open(fsys, BasePath)} :
          IF file.err # "" THEN
            /\ resp' = "404" /\ hpc' = "done"
            /\ fscalls' = fscalls \cup {"ServeHTTP.Open"}
          ELSE
            /\ fscalls' = fscalls \cup {"ServeHTTP.Open", "ServeHTTP.Stat"}
            /\ IF fsys[file.ino].kind = "dir" THEN
                 /\ hpc' = IF req.q # <<>> THEN "search" ELSE "dir"
                 /\ UNCHANGED resp
               ELSE
                 /\ resp' = "200 file" /\ hpc' = "done"
  /\ UNCHANGED <<cfgvars, dirvars, walkvars, chanvars>>

\* Server.handleSearch, lines 109-177: compile the query, make the channel,
\* start the walking goroutine, read the banner and start rendering
HandleSearch ==
  /\ hpc = "search"
  /\ IF req.regexp /\ ~Compile(req.q) THEN
       /\ resp' = "400" /\ hpc' = "done"
       /\ UNCHANGED <<wpc, fscalls>>
     ELSE
       /\ wpc' = "call"
       /\ fscalls' = fscalls \cup {"banner.ReadFile"}
       /\ resp' = "200 search" /\ hpc' = "render"
  /\ UNCHANGED <<cfgvars, dirvars, stack, visited, walkRet, visits, readdirs, cbBudget,
                 chanvars>>

\* Server.handleDir, lines 195-249: method, redirect, the start of an archive
\* download, or the directory index
HandleDir ==
  /\ hpc = "dir"
  /\ IF req.method # "GET" THEN
       /\ resp' = "405" /\ hpc' = "done" /\ UNCHANGED <<arc, index, fscalls>>
     ELSE IF ~req.slash THEN
       /\ resp' = "307" /\ hpc' = "done" /\ UNCHANGED <<arc, index, fscalls>>
     ELSE IF req.dl # "" THEN
       IF req.dl \notin {"targz", "zip"} THEN
         /\ resp' = "400" /\ hpc' = "done"
         /\ UNCHANGED <<arc, index, fscalls>>
       ELSE
         \E st \in {Stat(fsys, BasePath)} :
           /\ arc' = IF st.err # ""
                       THEN [ArcAbort(ArcNew(req.dl, 0), st.err)
                               EXCEPT !.errs = <<st.err>>]
                       ELSE ArcNew(req.dl, st.ino)
           /\ fscalls' = fscalls \cup {"WalkDir.Stat"}
           /\ hpc' = "archive"
           /\ UNCHANGED <<resp, index>>
     ELSE
       \E dirino \in {Stat(fsys, BasePath).ino} :
       \E ents \in ReaddirOrders(fsys, dirino) :
         /\ hpc' = "done"
         /\ UNCHANGED arc
         /\ IF fsys[dirino].eio THEN
              /\ resp' = "500"
              /\ UNCHANGED <<index, fscalls>>
            ELSE IF \E i \in 1..Len(ents) : ents[i].name = nIndexHtml THEN
              /\ resp' = "200 index.html"
              /\ UNCHANGED <<index, fscalls>>
            ELSE
              \E ix \in {Populate(fsys, BasePath, ents)} :
                /\ index' = ix
                /\ fscalls' = fscalls \cup {"banner.ReadFile"}
                /\ resp' = IF ix.err # "" THEN "500" ELSE "200 index"
  /\ UNCHANGED <<cfgvars, walkvars, chanvars>>

\* ---------------------------------------- the consumer: search.html's range

\* the template receives the next Match from .Results
Recv ==
  /\ hpc = "render"
  /\ \/ /\ chanBuf # <<>>
        /\ received' = Append(received, Head(chanBuf))
        /\ chanBuf' = Tail(chanBuf) \o offer
        /\ offer' = <<>>
        /\ stack' = IF offer # <<>> THEN Unblocked(stack) ELSE stack
     \/ /\ chanBuf = <<>> /\ offer # <<>>
        /\ received' = Append(received, offer[1])
        /\ offer' = <<>>
        /\ stack' = Unblocked(stack)
        /\ UNCHANGED chanBuf
  /\ UNCHANGED <<cfgvars, dirvars, cbBudget, hpc, resp, fscalls, wpc, visited, walkRet,
                 visits, readdirs, closed, nclose, sent>>

\* the range ends when the channel is closed and drained
RecvClosed ==
  /\ hpc = "render"
  /\ closed /\ chanBuf = <<>> /\ offer = <<>>
  /\ hpc' = "done"
  /\ UNCHANGED <<cfgvars, dirvars, resp, fscalls, walkvars, chanvars>>

\* lines 178-182: ExecuteTemplate fails (the client is gone) and
\* handleSearch returns; nothing receives from results any more
TemplateError ==
  /\ hpc = "render"
  /\ hpc' = "abandoned"
  /\ UNCHANGED <<cfgvars, dirvars, resp, fscalls, walkvars, chanvars>>

\* ------------------------------------------------- two concurrent searches

\* net/http serves every connection in a goroutine of its own, so two
\* requests run interleaved.  The state above is that of the request that
\* runs now; pair.other holds the state of the request that waits, pair.cur
\* tells which of the two runs and pair.alone what each search delivers when
\* it is the only one.
PairFileSystems == { FSCycleDot, FSPerm }
PairRequests == { Search(<<>>, <<"a">>, FALSE), Search(<<>>, <<"f">>, FALSE) }

\* everything a request owns: its handler, its walking goroutine with the
\* visited set of its WalkDir call, and its results channel
Saved ==
  [req |-> req, hpc |-> hpc, resp |-> resp, fscalls |-> fscalls, wpc |-> wpc,
   stack |-> stack, visited |-> visited, walkRet |-> walkRet,
   visits |-> visits, readdirs |-> readdirs, cbBudget |-> cbBudget,
   chanBuf |-> chanBuf, offer |-> offer, closed |-> closed,
   nclose |-> nclose, sent |-> sent, received |-> received]

Fresh(r) ==
  [req |-> r, hpc |-> "recv", resp |-> "", fscalls |-> {}, wpc |-> "off",
   stack |-> <<>>, visited |-> {}, walkRet |-> "", visits |-> <<>>,
   readdirs |-> <<>>, cbBudget |-> MaxCbErr, chanBuf |-> <<>>,
   offer |-> <<>>, closed |-> FALSE, nclose |-> 0, sent |-> <<>>,
   received |-> <<>>]

NoPair == [cur |-> 0, other |-> Fresh(NoRequest), alone |-> <<>>]

\* Faulty variant of OtherVisited: one visited set for all WalkDir calls.
SharedVisited == visited

\* visited := make(map[string]struct{}) in WalkDir: the set belongs to the
\* call, so the waiting request has its own
OtherVisited == pair.other.visited

\* the scheduler lets the other request run
Switch ==
  /\ entry = "pair"
  /\ pair' = [pair EXCEPT !.cur = 3 - @, !.other = Saved]
  /\ req' = pair.other.req /\ hpc' = pair.other.hpc
  /\ resp' = pair.other.resp /\ fscalls' = pair.other.fscalls
  /\ wpc' = pair.other.wpc /\ stack' = pair.other.stack
  /\ visited' = OtherVisited
  /\ walkRet' = pair.other.walkRet /\ visits' = pair.other.visits
  /\ readdirs' = pair.other.readdirs /\ cbBudget' = pair.other.cbBudget
  /\ chanBuf' = pair.other.chanBuf /\ offer' = pair.other.offer
  /\ closed' = pair.other.closed /\ nclose' = pair.other.nclose
  /\ sent' = pair.other.sent /\ received' = pair.other.received
  /\ UNCHANGED <<fsys, entry, sdir, cbKind, dirvars>>

\* One search on its own, from the call of walk.WalkDir to its return, with
\* a consumer that takes every Match at once: the machine m holds the walk's
\* stack, visited set, visits and sends.
AloneReturn(m, v) ==
  Only({ [m EXCEPT !.stack = r.stack,
                   !.wpc = IF r.done THEN "returned" ELSE m.wpc,
                   !.walkRet = IF r.done THEN WalkDirResult(r.ret)
                               ELSE m.walkRet] :
         r \in {Return(m.stack, v)} })

AloneCall(m, top, o, contPc, err) ==
  IF o.panic THEN [m EXCEPT !.wpc = "panic"]
  ELSE [m EXCEPT
          !.visits = Append(@, VisitRec(top.name, err, o.ret)),
          !.sent = IF o.send THEN Append(@, o.match) ELSE @,
          !.stack[Len(m.stack)] =
             [top EXCEPT !.stat = o.stat,
                         !.ret = IF o.send THEN "" ELSE o.ret, !.pc = contPc]]

AloneVisited(m, top) ==
  IF top.ret # "" THEN
    IF top.ret = "SkipDir" /\ top.stat = 0 THEN [m EXCEPT !.wpc = "panic"]
    ELSE AloneReturn(m, IF top.ret = "SkipDir" /\ StatIsDir(fsys, top.stat)
                          THEN "" ELSE top.ret)
  ELSE
    Only({ IF ~ww.walk THEN AloneReturn(m, "")
           ELSE [m EXCEPT
                   !.visited = @ \cup {ww.realname},
                   !.stack[Len(m.stack)] =
                      [top EXCEPT !.realname = ww.realname,
                         !.rderr = rd.err, !.dirs = rd.dirs, !.idx = 1,
                         !.pc = IF rd.err # "" THEN "report" ELSE "loop"]] :
           ww \in {WillWalk(fsys, m.visited, top.name, top.d)},
           rd \in {ReadDir(fsys, top.name)} })

AloneLoop(m, top) ==
  IF top.idx > Len(top.dirs) THEN AloneReturn(m, "")
  ELSE
    Only({ [m EXCEPT !.stack =
              Append(@, NewFrame(Join(top.name, RelPath(<<d1.name>>)), d1))] :
           d1 \in {top.dirs[top.idx]} })

AloneStep(m, base, r) ==
  Only({ CASE top.pc = "visit" ->
                Only({ AloneCall(m, top, o, "visited", "") :
                       o \in {SearchFn(fsys, base, r.q, r.regexp, top, TRUE,
                                       "")} })
           [] top.pc = "visited" -> AloneVisited(m, top)
           [] top.pc = "report" ->
                Only({ AloneCall(m, top, o, "reported", top.rderr) :
                       o \in {SearchFn(fsys, base, r.q, r.regexp, top, FALSE,
                                       top.rderr)} })
           [] top.pc = "reported" ->
                IF top.ret # "" THEN AloneReturn(m, top.ret)
                ELSE [m EXCEPT !.stack[Len(m.stack)].pc = "loop"]
           [] OTHER -> AloneLoop(m, top) :
         top \in {m.stack[Len(m.stack)]} })

RECURSIVE AloneRun(_, _, _)
AloneRun(m, base, r) ==
  IF m.wpc # "walk" THEN m
  ELSE Only({ AloneRun(n, base, r) : n \in {AloneStep(m, base, r)} })

\* what the search r of the directory served as dir visits and sends
Alone(f, dir, r) ==
  Only({ Only({ IF st.err # "" THEN [visits |-> <<>>, sent |-> <<>>]
                ELSE
                  Only({ [visits |-> m.visits, sent |-> m.sent] :
                         m \in {AloneRun(
                                  [wpc |-> "walk", visited |-> {},
                                   walkRet |-> "", visits |-> <<>>,
                                   sent |-> <<>>,
                                   stack |-> << NewFrame(base,
                                       [name |-> Base(base),
                                        isDir |-> f[st.ino].kind = "dir",
                                        isLink |-> FALSE, lazy |-> FALSE,
                                        ino |-> st.ino]) >>],
                                  base, r)} }) :
                st \in {Stat(f, base)} }) :
         base \in {Join(dir, AbsPath(CleanSegs(r.segs, <<>>, TRUE)))} })

\* ------------------------------------------------------------ specification

InitCommon ==
  /\ fsys \in {f \in FileSystems : SortedDirs(f)}
  /\ cbBudget = MaxCbErr
  /\ resp = "" /\ fscalls = {}
  /\ stack = <<>> /\ visited = {} /\ walkRet = "" /\ visits = <<>>
  /\ readdirs = <<>>
  /\ chanBuf = <<>> /\ offer = <<>> /\ closed = FALSE /\ nclose = 0
  /\ sent = <<>> /\ received = <<>>
  /\ arc = ArcOff /\ index = IndexOff

Init ==
  /\ InitCommon
  /\ pair = NoPair
  /\ \/ /\ entry = "http"
        /\ sdir \in ServedDirs
        /\ req \in Requests
        /\ cbKind = "search"
        /\ hpc = "recv" /\ wpc = "off"
     \/ /\ entry = "walk"
        /\ sdir \in WalkRoots
        /\ req = NoRequest
        /\ cbKind \in {"nil", "any"}
        /\ hpc = "none" /\ wpc = "call"

Producer ==
  WalkDirCall \/ VisitCall \/ Descend \/ Report \/ Reported \/ Loop
    \/ ProducerClose
Handler == ServeHTTP \/ HandleSearch \/ HandleDir
Archiver ==
  ArcVisit \/ ArcLoop \/ ArcCloseTar \/ ArcCloseGz \/ ArcCloseZip \/ ArcReturn
Consumer == Recv \/ RecvClosed

Next == Producer \/ Handler \/ Archiver \/ Consumer \/ TemplateError

Spec == Init /\ [][Next]_vars

\* The Go scheduler runs every goroutine that can run: the walking goroutine,
\* the handler and the template's receive.  TemplateError is the client's
\* doing and is never forced.
FairSpec ==
  Spec /\ WF_vars(Producer) /\ WF_vars(Handler) /\ WF_vars(Archiver)
       /\ WF_vars(Consumer)

\* two searches, interleaved in any way
PairInit ==
  /\ InitCommon
  /\ fsys \in PairFileSystems
  /\ entry = "pair"
  /\ sdir = SrvAbs
  /\ cbKind = "search"
  /\ req \in PairRequests
  /\ hpc = "recv" /\ wpc = "off"
  /\ \E r2 \in PairRequests :
       pair = [cur |-> 1, other |-> Fresh(r2),
               alone |-> <<Alone(fsys, sdir, req), Alone(fsys, sdir, r2)>>]

PairNext ==
  Producer \/ ServeHTTP \/ HandleSearch \/ Consumer \/ TemplateError \/ Switch

PairSpec == PairInit /\ [][PairNext]_vars

TypeOK ==
  /\ entry \in {"http", "walk", "pair"}
  /\ hpc \in {"none", "recv", "search", "dir", "archive", "render", "done",
             "abandoned"}
  /\ wpc \in {"off", "call", "walk", "returned", "closed", "panic"}
  /\ Len(offer) <= 1
  /\ closed \in BOOLEAN


\* ----------------------------------------------------------------- helpers

IsPrefix(a, b) == Len(a) <= Len(b) /\ SubSeq(b, 1, Len(a)) = a

\* the nodes below dir node n, links not followed
RECURSIVE Subtree(_, _)
Subtree(f, n) ==
  {n} \cup UNION { Subtree(f, f[n].ents[j].ino) : j \in 1..Len(f[n].ents) }

\* the files and directories a walk from the root can reach without a link
RealEntries(f, root) == {n \in Subtree(f, root) : f[n].kind \in {"file", "dir"}}

VisitCount(n) == Cardinality({i \in 1..Len(visits) : visits[i].ino = n})
ReadDirCount(n) == Cardinality({i \in 1..Len(readdirs) : readdirs[i] = n})

\* the node a link resolves to
LinkTarget(f, l) ==
  Namei(f, IF f[l].target.abs THEN RootIno ELSE f[l].parent, f[l].target.segs,
        TRUE, MaxSymlinks)

\* the directories two different links point at
SharedTargets(f) ==
  { n \in 1..Len(f) :
      /\ f[n].kind = "dir"
      /\ \E l1, l2 \in 1..Len(f) :
           /\ l1 # l2
           /\ f[l1].kind = "symlink" /\ f[l2].kind = "symlink"
           /\ LinkTarget(f, l1) = Ok(n) /\ LinkTarget(f, l2) = Ok(n) }

CycleTrees == {FSCycleAbs, FSCycleDot, FSCycleUp}
NilWalk == entry = "walk" /\ cbKind = "nil"
RootStat == Stat(fsys, BasePath)

\* no walk of the model is cut short by MaxVisits
VisitsBelowCap == Len(visits) < MaxVisits

\* ------------------------------------------------------------------ claims

\* C1: a WalkDir call whose visit callback always returns nil returns, on
\* every tree of the model, the ones with a link back to an ancestor
\* included.
C1_WalkTerminates == NilWalk ~> (wpc = "returned")

C1_Witness ==
  /\ NilWalk /\ fsys \in CycleTrees /\ wpc = "returned"
  /\ \E i \in 1..Len(visits) :
       visits[i].ino # 0 /\ fsys[visits[i].ino].kind = "symlink"

\* C2: after a WalkDir call with a nil-returning callback over a tree with a
\* link back to an ancestor, every file and directory under the root has been
\* passed to visit exactly once.
C2_EveryRealEntryOnce ==
  (NilWalk /\ fsys \in CycleTrees /\ wpc = "returned" /\ RootStat.err = "")
    => \A n \in RealEntries(fsys, RootStat.ino) : VisitCount(n) = 1

\* C3: in one WalkDir call a directory that two links point at is enumerated
\* at most once.
C3_TargetEnumeratedOnce ==
  NilWalk => \A n \in SharedTargets(fsys) : ReadDirCount(n) <= 1

\* C4: at most one Match is sent and not yet received; a blocked send ends
\* only by the consumer receiving that Match, and until then the producer
\* neither visits nor sends nor moves.
C4_OneInFlight ==
  [][ /\ Len(sent') - Len(received') <= 1
      /\ offer # <<>> =>
           \/ /\ offer' = offer
              /\ UNCHANGED <<stack, visits, sent, wpc, visited, received>>
           \/ /\ offer' = <<>>
              /\ received' = Append(received, offer[1])
              /\ UNCHANGED <<visits, sent>> ]_vars

C4_Witness ==
  /\ offer # <<>> /\ Len(received) >= 1 /\ Len(sent) = Len(received) + 1

\* C5: results is closed once, after WalkDir has returned and every Match sent
\* has been received, nothing is sent after it, and a search whose consumer
\* does not give up reaches the close.
C5_CompletionSignalled ==
  /\ [](closed => /\ wpc = "closed" /\ stack = <<>> /\ nclose = 1
                  /\ offer = <<>> /\ chanBuf = <<>> /\ sent = received)
  /\ [][closed => (closed' /\ nclose' = nclose /\ sent' = sent)]_vars
  /\ (hpc = "render") ~> (closed \/ hpc = "abandoned")

C5_Witness == closed /\ hpc = "done" /\ Len(received) >= 2

\* C6: once the consumer has given up while a send is blocked, nothing
\* changes any more: the producer does not move, results is not closed and
\* the goroutine does not end.
C6_ProducerBlockedForever ==
  [][ (hpc = "abandoned" /\ offer # <<>>) =>
        /\ ~closed /\ wpc = "walk"
        /\ UNCHANGED <<hpc, offer, stack, visits, sent, received, wpc, closed,
                       visited>> ]_vars

C6_Witness ==
  /\ hpc = "abandoned" /\ offer # <<>> /\ stack # <<>>
  /\ Top.pc = "send1" /\ ~closed

\* the callback of a search has returned an error and the walk is being, or
\* has been, given up
Aborting ==
  /\ cbKind = "search"
  /\ \/ /\ wpc = "walk" /\ stack # <<>>
        /\ Top.pc \in {"visited", "reported"} /\ Top.ret # ""
     \/ wpc \in {"returned", "closed"} /\ walkRet # ""

\* C7: after a hard error in a search nothing more is visited or sent, what
\* was received stays received, and results is still closed.
C7_HardErrorStops ==
  /\ [][ /\ IsPrefix(received, received')
         /\ Aborting => (Aborting' /\ visits' = visits /\ sent' = sent) ]_vars
  /\ Aborting ~> closed

C7_Witness ==
  /\ fsys = FSEio /\ walkRet = "EIO" /\ closed /\ Len(received) = 1
  /\ \A i \in 1..Len(visits) : visits[i].ino # 5

\* C8: a permission error does not abort the walk of a search.
C8_PermissionSoft ==
  (cbKind = "search" /\ wpc \in {"returned", "closed"})
    => ~IsPermission(walkRet)

\* a regex-mode request whose query has unbalanced parentheses
BadRegex == entry = "http" /\ req.regexp /\ ~ParenOk(req.q, 0)

\* C9 as stated: a request with a query that does not compile makes no
\* file-system call at all.
C9_NoFsCalls == (BadRegex /\ hpc = "done") => fscalls = {}

\* C9: a request with a query that does not compile is answered 400 with no
\* producer started, nothing visited, nothing sent and no file-system call
\* but ServeHTTP's open and stat of the requested path.
C9_NoTraversal ==
  BadRegex =>
    /\ wpc = "off" /\ stack = <<>> /\ visits = <<>> /\ sent = <<>>
    /\ fscalls \subseteq {"ServeHTTP.Open", "ServeHTTP.Stat"}
    /\ hpc = "done" => resp = "400"

C9_Witness == BadRegex /\ resp = "400" /\ fscalls # {}

\* whether the search has sent a Match for the entry visited as fpath
Emitted(fpath) ==
  \E j \in 1..Len(sent) : sent[j].path = Rel(BasePath, fpath).path

\* C10: in a literal search a visited entry other than the root is sent as a
\* Match exactly when its base name contains the query, case ignored.
C10_EmittedIffBaseContains ==
  (cbKind = "search" /\ ~req.regexp) =>
    \A i \in 1..Len(visits) :
      visits[i].path # BasePath =>
        (Emitted(visits[i].path)
           <=> Contains(ToLower(Base(visits[i].path)), ToLower(req.q)))

\* C11 as stated: in a regex search a visited entry other than the root is
\* sent as a Match exactly when the expression matches the entry's path
\* relative to the search root.
C11_RegexOnRelativePath ==
  (cbKind = "search" /\ req.regexp /\ Compile(req.q)) =>
    \A i \in 1..Len(visits) :
      visits[i].path # BasePath =>
        (Emitted(visits[i].path)
           <=> MatchString(req.q,
                           PathString(Rel(BasePath, visits[i].path).path)))

\* ------------------------------------------------------- reading an archive

\* the payload bytes at the head of a stream
RECURSIVE LeadingBytes(_)
LeadingBytes(toks) ==
  IF toks # <<>> /\ toks[1].t = "B"
    THEN <<toks[1].n>> \o LeadingBytes(Tail(toks))
  ELSE <<>>

ArcFile(name, bytes) == [name |-> name, bytes |-> bytes]

\* the file records at the head of a stream, as a standard reader takes them:
\* a tar header announces the size of its payload, a zip data descriptor
\* confirms it
RECURSIVE ParseEntries(_, _, _)
ParseEntries(toks, fmt, acc) ==
  IF toks = <<>> \/ toks[1].t # "H"
    THEN [ok |-> TRUE, files |-> acc, rest |-> toks]
  ELSE
    LET data == LeadingBytes(Tail(toks))
        rest == SubSeq(toks, Len(data) + 2, Len(toks))
        file == ArcFile(toks[1].name, data)
    IN IF fmt = "zip" THEN
         IF rest # <<>> /\ rest[1].t = "DD" /\ rest[1].n = Len(data)
           THEN ParseEntries(Tail(rest), fmt, Append(acc, file))
         ELSE [ok |-> FALSE, files |-> acc, rest |-> rest]
       ELSE
         IF toks[1].n = Len(data)
           THEN ParseEntries(rest, fmt, Append(acc, file))
         ELSE [ok |-> FALSE, files |-> acc, rest |-> rest]

\* decoding: the records, then exactly the trailer of the format (for zip
\* the central directory must list the records)
Decode(toks, fmt) ==
  LET p == ParseEntries(toks, fmt, <<>>)
      trailer ==
        IF fmt = "zip"
          THEN [i \in 1..Len(p.files) |-> Tok("CD", p.files[i].name, 0)]
                 \o <<Tok("EOCD", <<>>, Len(p.files))>>
          ELSE <<Tok("TAREND", <<>>, 0), Tok("GZEND", <<>>, 0)>>
  IN [ok |-> p.ok /\ p.rest = trailer, files |-> p.files]

\* the regular files of the tree at node n, by their path below it
RECURSIVE TreeFiles(_, _, _)
TreeFiles(f, n, segs) ==
  IF f[n].kind = "file" THEN {ArcFile(JoinSlash(segs), Bytes(n))}
  ELSE IF f[n].kind = "dir" THEN
    UNION { TreeFiles(f, f[n].ents[j].ino, Append(segs, f[n].ents[j].name)) :
            j \in 1..Len(f[n].ents) }
  ELSE {}

\* the tree an archive request packs
ArcTree ==
  LET st == Stat(fsys, BasePath)
  IN IF st.err # "" THEN {} ELSE TreeFiles(fsys, st.ino, <<>>)

ArcSucceeded == arc.pc = "done" /\ arc.err = ""

HeaderNames ==
  {arc.out[i].name : i \in {j \in 1..Len(arc.out) : arc.out[j].t = "H"}}

\* C12: an archive that was encoded without error decodes, in either format,
\* into exactly one record per regular file of the tree, named by its
\* slash-separated path below the root (no leading slash, no root segment)
\* and holding the file's bytes, and it ends with the format's trailer.
C12_RoundTrip ==
  ArcSucceeded =>
    LET d == Decode(arc.out, arc.fmt)
    IN /\ d.ok
       /\ {d.files[i] : i \in 1..Len(d.files)} = ArcTree
       /\ Len(d.files) = Cardinality(ArcTree)
       /\ \A i \in 1..Len(d.files) :
            /\ d.files[i].name # <<>> /\ d.files[i].name[1] # "/"
            /\ ~HasPrefix(d.files[i].name, nSrv \o <<"/">>)

C12_Witness ==
  /\ ArcSucceeded /\ fsys = FSMixed /\ arc.fmt = "targz"
  /\ \E i \in 1..Len(arc.out) :
       arc.out[i].t = "H" /\ arc.out[i].name = <<"a", "/", "f">>
         /\ arc.out[i].n = 1

\* C13: in tar.gz encoding the gzip writer is never closed while the tar
\* writer is open, nothing is visited or written as a record once the tar
\* writer is closed, and after a successful return both are closed.
C13_TarBeforeGzip ==
  /\ [](arc.fmt = "targz" =>
          /\ ~arc.gzOpen => ~arc.tarOpen
          /\ ArcSucceeded => (~arc.tarOpen /\ ~arc.gzOpen))
  /\ [][ (arc.fmt = "targz" /\ ~arc.tarOpen) =>
           /\ arc'.visits = arc.visits
           /\ \/ arc'.out = arc.out
              \/ arc'.out = Append(arc.out, Tok("GZEND", <<>>, 0)) ]_vars

C13_Witness ==
  /\ arc.fmt = "targz" /\ ArcSucceeded /\ ~arc.tarOpen /\ ~arc.gzOpen
  /\ HeaderNames # {}

\* C14: once the encoder has met an error it writes nothing more, visits
\* nothing more and returns that first error.
C14_AbortOnError ==
  /\ [](arc.errs # <<>> =>
          (arc.pc \in {"ret", "done"} /\ arc.err = arc.errs[1]))
  /\ [][ arc.errs # <<>> =>
           /\ arc'.out = arc.out /\ arc'.visits = arc.visits
           /\ arc'.errs = arc.errs ]_vars

C14_Witness ==
  /\ fsys = FSUnreadable /\ arc.pc = "done" /\ arc.err = "EACCES"
  /\ Len(arc.visits) = 3 /\ arc.out # <<>>

\* C15 as stated: no error page is written to a response that already
\* holds archive bytes.
C15_NoErrorPageAfterBytes == ~(arc.flushed /\ arc.errpage)

\* the entry visited as name is reached from the root through directories
\* only
NoLinkOnPath(name) ==
  \A k \in 0..(Len(name.segs) - 1) :
    Only({ l.err = "" /\ fsys[l.ino].kind = "dir" :
           l \in {Lstat(fsys, Join(BasePath,
                                   RelPath(SubSeq(name.segs, 1, k))))} })

\* C16: the encoders visit nothing that is reached through a link, write a
\* header for regular files only and, when they succeed, for every regular
\* file of the tree whatever the format; every archive request is answered,
\* trees with link cycles included.
C16_LinksNotFollowed ==
  /\ [](/\ \A i \in 1..Len(arc.visits) : NoLinkOnPath(arc.visits[i].name)
        /\ HeaderNames \subseteq {t.name : t \in ArcTree}
        /\ ArcSucceeded => HeaderNames = {t.name : t \in ArcTree})
  /\ (hpc = "archive") ~> (hpc = "done")

C16_Witness ==
  /\ fsys = FSMixed /\ arc.fmt = "zip" /\ ArcSucceeded
  /\ Len(arc.visits) = 7

\* ------------------------------------------------------ reading a listing

\* the positions in the listing of the entries named like a README
ReadmePositions ==
  {i \in 1..Len(index.files) : ToLower(index.files[i].name) \in ReadmeNames}

FirstReadme == CHOOSE k \in ReadmePositions : \A i \in ReadmePositions : k <= i

\* how a README is to be shown, by the last letter of its name
HowOf(name) ==
  IF Last(name) \in {"t", "T"} THEN "pre"
  ELSE IF Last(name) \in {"l", "L"} THEN "verbatim"
  ELSE "markdown"

\* the node a name of the listed directory leads to, links followed
BehindName(name) == Stat(fsys, Join(BasePath, RelPath(<<name>>)))

Listed(lname) ==
  \E i \in 1..Len(index.files) : ToLower(index.files[i].name) = lname

\* the README the priority readme.txt > readme.html > readme.md picks
PriorityHow ==
  IF Listed(ToLower(nReadmeTxt)) THEN "pre"
  ELSE IF Listed(ToLower(nReadmeHtml)) THEN "verbatim"
  ELSE "markdown"

\* C17 as stated: with more than one README in the directory the one shown
\* is the highest in the priority readme.txt > readme.html > readme.md.
C17_PriorityOrder ==
  (index.done /\ Cardinality(ReadmePositions) > 1) =>
    /\ index.err = ""
    /\ index.readme.how = PriorityHow

\* C17: the index shows at most one README, the first entry of the sorted
\* listing (directories first, then by name, case-sensitive) whose
\* lower-cased name is readme.txt, readme.html or readme.md; when that entry
\* cannot be read the listing fails and no other README is tried.
C17_FirstInListing ==
  index.done =>
    IF ReadmePositions = {} THEN index.readme = NoReadme /\ index.err = ""
    ELSE LET name == index.files[FirstReadme].name
             file == BehindName(name)
         IN IF file.err = "" /\ fsys[file.ino].kind # "dir" /\ fsys[file.ino].r
              THEN /\ index.err = ""
                   /\ index.readme = [how |-> HowOf(name), src |-> file.ino]
            ELSE index.err # "" /\ index.readme = NoReadme

C17_Witness ==
  /\ index.done /\ index.err = "" /\ Cardinality(ReadmePositions) > 1
  /\ Listed(ToLower(nReadmeTxt))
  /\ index.files[FirstReadme].name = nReadmeMd
  /\ index.readme.how = "markdown"

BothReadmes ==
  /\ \E i \in 1..Len(index.files) : index.files[i].name = nReadmeMd
  /\ \E i \in 1..Len(index.files) : index.files[i].name = nReadmeTxt

\* C18 as stated: in a directory with README.md and README.txt the README
\* shown is the markdown rendering of README.md.
C18_MarkdownOfReadmeMd ==
  (index.done /\ BothReadmes) =>
    /\ index.readme.how = "markdown"
    /\ index.readme.src = BehindName(nReadmeMd).ino

\* C18: in a directory with README.md and README.txt where README.md is a
\* readable file and the first entry of the listing named like a README, the
\* README shown is the markdown rendering of README.md and nothing else.
C18_MarkdownWhenFirst ==
  (/\ index.done /\ BothReadmes
   /\ index.files[FirstReadme].name = nReadmeMd
   /\ BehindName(nReadmeMd).err = ""
   /\ fsys[BehindName(nReadmeMd).ino].kind = "file"
   /\ fsys[BehindName(nReadmeMd).ino].r) =>
    /\ index.err = ""
    /\ index.readme = [how |-> "markdown", src |-> BehindName(nReadmeMd).ino]

C18_Witness ==
  /\ fsys = FSIndex /\ index.done /\ BothReadmes
  /\ index.readme = [how |-> "markdown", src |-> 3]

\* whether a listed entry acts as a directory: it is one, or it is a link
\* that resolves to one
ActsAsDir(fi) ==
  \/ fsys[fi.ino].kind = "dir"
  \/ /\ fsys[fi.ino].kind = "symlink"
     /\ BehindName(fi.name).err = ""
     /\ fsys[BehindName(fi.name).ino].kind = "dir"

\* C19: the listing holds every entry of the directory once, the entries
\* that act as directories before the others and the names of each group in
\* strictly ascending byte order.
C19_DirsFirstThenName ==
  index.done =>
    /\ Len(index.files) = Len(fsys[Stat(fsys, BasePath).ino].ents)
    /\ {index.files[i].ino : i \in 1..Len(index.files)}
         = {fsys[Stat(fsys, BasePath).ino].ents[i].ino :
              i \in 1..Len(index.files)}
    /\ \A i, j \in 1..Len(index.files) :
         i < j =>
           /\ ActsAsDir(index.files[i]) \/ ~ActsAsDir(index.files[j])
           /\ ActsAsDir(index.files[i]) = ActsAsDir(index.files[j])
                => StrLess(index.files[i].name, index.files[j].name)

C19_Witness ==
  /\ fsys = FSIndex /\ index.done /\ Len(index.files) = 5
  /\ index.files[1].kind = "symlink" /\ index.files[2].kind = "dir"
  /\ index.files[3].name = nReadmeMd /\ index.files[5].name = <<"b">>

\* ------------------------------------------------- two searches at a time

\* the search with state st does what the search a does on its own, as far
\* as it has come
RunsAsAlone(st, a) ==
  /\ IsPrefix(st.visits, a.visits)
  /\ IsPrefix(st.sent, a.sent)
  /\ IsPrefix(st.received, st.sent)
  /\ st.wpc \in {"returned", "closed"} =>
       (st.visits = a.visits /\ st.sent = a.sent)
  /\ st.hpc = "done" => st.received = a.sent

\* C20: however two searches are interleaved, each visits the entries, takes
\* the descent decisions and delivers to its own consumer the Matches, in
\* order, that it visits, takes and delivers when it runs alone.
C20_SearchesIndependent ==
  entry = "pair" =>
    /\ RunsAsAlone(Saved, pair.alone[pair.cur])
    /\ RunsAsAlone(pair.other, pair.alone[3 - pair.cur])

C20_Witness ==
  /\ entry = "pair" /\ req # pair.other.req
  /\ wpc = "walk" /\ pair.other.wpc = "walk"
  /\ Len(received) >= 1 /\ Len(pair.other.received) >= 1
  /\ visited # {} /\ visited # pair.other.visited

\* ------------------------------------------------------ the visit contract

AnyWalk == entry = "walk" /\ cbKind = "any"
WalkEnded == wpc \in {"returned", "panic"}

\* q is an entry of the directory p
ParentOf(p, q) == q.segs # <<>> /\ Join(p, RelPath(<<Last(q.segs)>>)) = q
\* q is p or lies below it
Below(p, q) == p.abs = q.abs /\ IsPrefix(p.segs, q.segs)

\* the calls of fn that returned SkipDir
SkipVisits == {i \in 1..Len(visits) : visits[i].ret = "SkipDir"}

\* the visits of links
LinkVisits ==
  { i \in 1..Len(visits) :
      visits[i].ino # 0 /\ fsys[visits[i].ino].kind = "symlink" }

\* the entries listed after node n in its directory
LaterSiblings(f, n) ==
  { f[f[n].parent].ents[j].ino :
      j \in { k \in 1..Len(f[f[n].parent].ents) :
                \E h \in 1..(k - 1) : f[f[n].parent].ents[h].ino = n } }

\* C21: when fn has returned SkipDir for a regular file and WalkDir has
\* returned, it has returned nil and the entries listed after the file in its
\* directory have been visited, as after nil.
C21_SkipDirOnFileNoOp ==
  (AnyWalk /\ wpc = "returned") =>
    \A i \in SkipVisits :
      (visits[i].ino # 0 /\ fsys[visits[i].ino].kind = "file"
         /\ visits[i].path # BasePath) =>
        /\ walkRet = ""
        /\ \A n \in LaterSiblings(fsys, visits[i].ino) : VisitCount(n) >= 1

\* C22: when fn returns SkipDir on the first call for a directory, WalkDir
\* returns without SkipDir, nothing below the directory is visited, its path
\* is not in the visited set (unless a link that names it was descended into)
\* and the entries listed after it are visited.
C22_SkipDirPrunesSubtree ==
  (AnyWalk /\ WalkEnded) =>
    \A i \in SkipVisits :
      (visits[i].ino # 0 /\ fsys[visits[i].ino].kind = "dir"
         /\ visits[i].err = "") =>
        /\ wpc = "returned" /\ walkRet # "SkipDir"
        /\ \A j \in 1..Len(visits) :
             Below(visits[i].path, visits[j].path) => j = i
        /\ (\A k \in LinkVisits :
              RealName(visits[k].path, fsys[visits[k].ino].target)
                # visits[i].path)
             => visits[i].path \notin visited
        /\ visits[i].path # BasePath =>
             \A n \in LaterSiblings(fsys, visits[i].ino) : VisitCount(n) >= 1

\* entries of the i-th visited path were visited after it
Descended(i) ==
  \E j \in (i + 1)..Len(visits) : ParentOf(visits[i].path, visits[j].path)

\* before the i-th visit the directory node n was entered by some path
EnteredBefore(i, n) ==
  \E k \in 1..(i - 1) :
    /\ Stat(fsys, visits[k].path) = Ok(n)
    /\ \E j \in (k + 1)..(i - 1) : ParentOf(visits[k].path, visits[j].path)

\* C23: a visited link is descended into exactly when it resolves to a
\* directory that no path has entered before; a link that does not resolve
\* to a directory is visited once and not descended into.
C23_LinkDescentRule ==
  (NilWalk /\ wpc = "returned") =>
    \A i \in LinkVisits :
      \E t \in {LinkTarget(fsys, visits[i].ino)} :
        IF t.err = "" /\ fsys[t.ino].kind = "dir"
          THEN (fsys[t.ino].ents # <<>> /\ fsys[t.ino].r /\ ~fsys[t.ino].eio)
                 => (Descended(i) <=> ~EnteredBefore(i, t.ino))
          ELSE /\ ~Descended(i)
               /\ \A j \in 1..Len(visits) :
                    visits[j].path = visits[i].path => j = i

\* C24: the Matches one search sends have different paths, and the consumer
\* receives the Matches sent, each once and in order.
C24_OneMatchPerPath ==
  cbKind = "search" =>
    /\ \A i, j \in 1..Len(sent) : sent[i].path = sent[j].path => i = j
    /\ IsPrefix(received, sent)
    /\ hpc = "done" /\ wpc = "closed" => received = sent

\* C25: a call of fn with an error is, the failed stat of the root aside, the
\* second call for that path and follows the first at once; when it returns
\* non-nil WalkDir returns that value and nothing more is visited, and when
\* every call returns nil the entries listed after the directory are visited.
C25_ReportThenAbortOrGoOn ==
  (entry = "walk" /\ wpc = "returned" /\ RootStat.err = "") =>
    \A i \in 1..Len(visits) :
      visits[i].err # "" =>
        /\ i > 1 /\ visits[i - 1].path = visits[i].path
        /\ visits[i - 1].err = "" /\ visits[i].ino # 0
        /\ visits[i].ret # "" => (walkRet = visits[i].ret /\ i = Len(visits))
        /\ (visits[i].path # BasePath
              /\ \A j \in 1..Len(visits) : visits[j].ret = "")
             => \A n \in LaterSiblings(fsys, visits[i].ino) : VisitCount(n) >= 1

\* C26: when the stat of the root fails, WalkDir has called fn once, with the
\* root and the error of the stat, has left the visited set empty and has
\* returned what that call returned.
C26_RootStatFailure ==
  (wpc \in {"returned", "closed"} /\ RootStat.err # "") =>
    /\ Len(visits) = 1
    /\ visits[1].path = BasePath /\ visits[1].err = RootStat.err
    /\ visited = {} /\ readdirs = <<>> /\ stack = <<>>
    /\ walkRet = visits[1].ret

C26_Witness ==
  /\ AnyWalk /\ wpc = "returned" /\ RootStat.err = "ENOENT"
  /\ Len(visits) = 1 /\ walkRet = "EUSER"

\* C27: an entry is visited after the directory it is in; the visits at and
\* below a path are consecutive; and while a Match sent is not yet received,
\* it is the Match of the last visit.
C27_PreOrder ==
  /\ \A j \in 1..Len(visits) :
       visits[j].path # BasePath =>
         \E i \in 1..(j - 1) : ParentOf(visits[i].path, visits[j].path)
  /\ \A i, k \in 1..Len(visits) :
       (i < k /\ Below(visits[i].path, visits[k].path)) =>
         \A j \in i..k : Below(visits[i].path, visits[j].path)
  /\ Len(sent) > Len(received) =>
       /\ Len(sent) = Len(received) + 1
       /\ visits # <<>>
       /\ Rel(BasePath, visits[Len(visits)].path).path = sent[Len(sent)].path

C27_Witness ==
  /\ entry = "http" /\ wpc = "closed" /\ Len(received) >= 2
  /\ \E i, j, k \in 1..Len(visits) :
       /\ i < j /\ j < k /\ visits[i].path # BasePath
       /\ ParentOf(visits[i].path, visits[j].path)
       /\ ~Below(visits[i].path, visits[k].path)

\* C28: WalkDir does not crash on a SkipDir from fn, whether fn has called
\* getinfo or not and whether that stat succeeded or not.
C28_SkipDirNeverCrashes == AnyWalk => wpc # "panic"

=============================================================================
